---------------------------- MODULE Spec2Model ----------------------------
(***************************************************************************)
(* Model of scripts/stac-to-layers-config.py: the generator that resolves  *)
(* collections in a STAC catalog and synthesises a layers-config document. *)
(*                                                                         *)
(* Python strings are sequences of one-character strings, so that lower(), *)
(* the "in" test, endswith(), startswith(), split() and the f-strings are  *)
(* computed character by character.  Python dicts read with .get() are     *)
(* TLA+ records whose domain may lack the field.  Dicts whose insertion    *)
(* order matters are sequences of [key, value] entries.                    *)
(***************************************************************************)
EXTENDS Integers, Sequences, FiniteSets, TLC

VARIABLES
    pc,             \* position of main()
    argv,           \* parsed command line / input file (args, input_config)
    catalog_links,  \* the "links" list of the catalog document served at catalog_url
    catalog_url,    \* main: catalog_url
    titiler,        \* main: titiler_url
    layer_specs,    \* main: layer_specs
    si,             \* main: index of the spec the for-loop of line 297 is at
    li,             \* find_collection_url: index of the link the loop of line 44 is at
    collection_url, \* main: result of find_collection_url
    fetched,        \* locations handed to urlopen by the current find_collection_url call
    nfetch,         \* number of urlopen calls made by the run
    layers,         \* main: layers_config["layers"]
    outfile,        \* the documents written to the output path, none at first
    exit_msg,       \* why the process ended with a non-zero status
    b_in,           \* arguments of one generate_layer_config call
    b_out           \* its outcome

vars == <<pc, argv, catalog_links, catalog_url, titiler, layer_specs, si, li,
          collection_url, fetched, nfetch, layers, outfile, exit_msg, b_in, b_out>>

main_vars == <<pc, argv, catalog_links, catalog_url, titiler, layer_specs, si, li, collection_url, fetched,
               nfetch, layers, outfile, exit_msg>>

build_vars == <<b_in, b_out>>

-----------------------------------------------------------------------------
(* Bounds of the model *)

MaxCols == 2    \* longest table:columns list drawn
MaxLinks == 2   \* longest catalog links list drawn
MaxSpecs == 2   \* longest list of layer requests drawn

-----------------------------------------------------------------------------
(* Python values *)

\* None: a value that is no string (a string's elements are single characters)
None == <<"None">>

\* truthiness of a string or None, as in "if x", "x or y"
Truthy(x) == x # None /\ x # <<>>

\* d.get(k, default)
Get(d, k, default) == IF k \in DOMAIN d THEN d[k] ELSE default

\* str.lower() on the letters the model's strings use
LowerChar(c) ==
    CASE c = "P" -> "p" [] c = "M" -> "m" [] c = "T" -> "t" [] c = "I" -> "i"
      [] c = "L" -> "l" [] c = "E" -> "e" [] c = "S" -> "s" [] c = "G" -> "g"
      [] c = "O" -> "o" [] c = "F" -> "f" [] c = "C" -> "c" [] c = "U" -> "u"
      [] c = "D" -> "d" [] c = "Z" -> "z"
      [] OTHER -> c

Lower(s) == [i \in 1..Len(s) |-> LowerChar(s[i])]

\* str.startswith / str.endswith / "sub in s"
StartsWith(s, p) == Len(p) <= Len(s) /\ SubSeq(s, 1, Len(p)) = p

EndsWith(s, p) == Len(p) <= Len(s) /\ SubSeq(s, Len(s) - Len(p) + 1, Len(s)) = p

Contains(s, sub) ==
    \E i \in 1..(Len(s) - Len(sub) + 1) : SubSeq(s, i, i + Len(sub) - 1) = sub

\* mutant: a present key keeps its value (setdefault)
DictSet_keep_first(d, k, v) ==
    IF \E i \in 1..Len(d) : d[i].key = k
    THEN d
    ELSE Append(d, [key |-> k, value |-> v])

\* d[k] = v on an insertion-ordered dict: a present key keeps its position
DictSet(d, k, v) ==
    IF \E i \in 1..Len(d) : d[i].key = k
    THEN [i \in 1..Len(d) |-> IF d[i].key = k THEN [key |-> k, value |-> v] ELSE d[i]]
    ELSE Append(d, [key |-> k, value |-> v])

DictKeys(d) == [i \in 1..Len(d) |-> d[i].key]

DictHas(d, k) == \E i \in 1..Len(d) : d[i].key = k

DictGet(d, k) == d[CHOOSE i \in 1..Len(d) : d[i].key = k].value

\* all sequences over S of length at most n
SeqsUpTo(S, n) == UNION {[1..k -> S] : k \in 0..n}

-----------------------------------------------------------------------------
(* String literals of the source *)

S_pmtiles == <<"p","m","t","i","l","e","s">>
S_dot_pmtiles == <<".","p","m","t","i","l","e","s">>
S_geotiff == <<"g","e","o","t","i","f","f">>
S_cloud_optimized == <<"c","l","o","u","d","-","o","p","t","i","m","i","z","e","d">>
S_dot_tif == <<".","t","i","f">>
S_pmtiles_scheme == <<"p","m","t","i","l","e","s",":","/","/">>
S_layer_suffix == <<"-","l","a","y","e","r">>
S_anchor_open == <<"<","a"," ","h","r","e","f","=","\"">>
S_anchor_target == <<"\""," ","t","a","r","g","e","t","=","\"","_","b","l","a","n","k","\"",">">>
S_anchor_close == <<"<","/","a",">">>
S_float == <<"f","l","o","a","t">>
S_int == <<"i","n","t">>
S_string == <<"s","t","r","i","n","g">>
S_geometry == <<"g","e","o","m","e","t","r","y">>
S_h10 == <<"h","1","0">>
S_h9 == <<"h","9">>
S_h8 == <<"h","8">>
S_h0 == <<"h","0">>
S_tiles_path == <<"/","c","o","g","/","t","i","l","e","s","/","W","e","b","M","e","r","c","a","t","o","r","Q","u","a","d","/","{","z","}","/","{","x","}","/","{","y","}",".","p","n","g","?","u","r","l","=">>
S_colormap_param == <<"&","c","o","l","o","r","m","a","p","_","n","a","m","e","=">>
S_rescale_param == <<"&","r","e","s","c","a","l","e","=">>
S_reds == <<"r","e","d","s">>
S_titiler == <<"h","t","t","p","s",":","/","/","t","i","t","i","l","e","r",".","n","r","p","-","n","a","u","t","i","l","u","s",".","i","o">>
S_http == <<"h","t","t","p">>


-----------------------------------------------------------------------------
(* detect_layer_type *)

\* mutant: the raster rule tried before the vector rule
detect_layer_type_raster_first(asset) ==
    LET asset_type == Get(asset, "type", <<>>)
        href == Get(asset, "href", <<>>)
    IN  IF \/ Contains(Lower(asset_type), S_geotiff)
           \/ Contains(Lower(asset_type), S_cloud_optimized)
           \/ EndsWith(href, S_dot_tif)
        THEN "cog"
        ELSE IF Contains(Lower(asset_type), S_pmtiles) \/ EndsWith(href, S_dot_pmtiles)
        THEN "pmtiles"
        ELSE "unknown"

detect_layer_type(asset) ==
    LET asset_type == Get(asset, "type", <<>>)
        href == Get(asset, "href", <<>>)
    IN  IF Contains(Lower(asset_type), S_pmtiles) \/ EndsWith(href, S_dot_pmtiles)
        THEN "pmtiles"
        ELSE IF \/ Contains(Lower(asset_type), S_geotiff)
                \/ Contains(Lower(asset_type), S_cloud_optimized)
                \/ EndsWith(href, S_dot_tif)
        THEN "cog"
        ELSE "unknown"

-----------------------------------------------------------------------------
(* generate_layer_config *)

\* line 95: display_name or asset_title or collection.get("title", layer_key)
FinalDisplayName(collection, asset, layer_key, display_name) ==
    LET asset_title == Get(asset, "title", <<>>)
    IN  IF Truthy(display_name) THEN display_name
        ELSE IF Truthy(asset_title) THEN asset_title
        ELSE Get(collection, "title", layer_key)

\* line 99: next((link.get("href") for link in links if rel == "about"), "")
RECURSIVE FirstAbout(_)
FirstAbout(links) ==
    IF links = <<>> THEN <<>>
    ELSE IF Get(Head(links), "rel", None) = <<"a","b","o","u","t">>
         THEN Get(Head(links), "href", None)
         ELSE FirstAbout(Tail(links))

\* lines 98-102; collection.get("providers", [{}])[0] raises IndexError on []
Attribution(collection) ==
    LET about_link == FirstAbout(Get(collection, "links", <<>>))
        providers == Get(collection, "providers", <<[x \in {} |-> <<>>]>>)
    IN  IF providers = <<>>
        THEN [status |-> "raise", msg |-> "IndexError"]
        ELSE LET provider_name == Get(providers[1], "name", <<>>)
             IN  [status |-> "ok",
                  value |-> IF Truthy(about_link) /\ Truthy(provider_name)
                            THEN S_anchor_open \o about_link \o S_anchor_target
                                 \o provider_name \o S_anchor_close
                            ELSE <<>>]

\* mutant: one hierarchical-index column missing from the skip list
ExcludedColumns_without_h0 == {S_geometry, S_h10, S_h9, S_h8}

\* line 143: the columns that are skipped
ExcludedColumns == {S_geometry, S_h10, S_h9, S_h8, S_h0}

\* lines 136-155: the loop over table_columns, filling the dict filterable
RECURSIVE Filterable(_, _)
Filterable(table_columns, filterable) ==
    IF table_columns = <<>> THEN filterable
    ELSE LET col == Head(table_columns)
             col_name == Get(col, "name", <<>>)
             col_type == Get(col, "type", S_string)
             col_desc == Get(col, "description", <<>>)
             prop_type == IF Contains(col_type, S_float) \/ Contains(col_type, S_int)
                          THEN "number" ELSE "string"
         IN  IF col_name \in ExcludedColumns
             THEN Filterable(Tail(table_columns), filterable)
             ELSE Filterable(Tail(table_columns),
                             DictSet(filterable, col_name,
                                     [type |-> prop_type, description |-> col_desc]))

\* mutant: the layer key used as the id
LayerId_without_suffix(layer_key) == layer_key

\* lines 109-110, 169-170: f"{layer_key}-layer"
LayerId(layer_key) == layer_key \o S_layer_suffix

\* lines 107-158: the vector (PMTiles) descriptor
VectorConfig(collection, layer_key, final_display_name, asset_href, attribution) ==
    LET layer_config ==
            [displayName |-> final_display_name,
             layerIds |-> <<LayerId(layer_key)>>,
             checkboxId |-> LayerId(layer_key),
             hasLegend |-> FALSE,
             isVector |-> TRUE,
             source |-> [type |-> "vector",
                         url |-> S_pmtiles_scheme \o asset_href,
                         attribution |-> attribution],
             layer |-> ("type" :> "fill") @@ ("source-layer" :> layer_key)
                       @@ ("minzoom" :> 0) @@ ("maxzoom" :> 22)
                       @@ ("paint" :> (("fill-color" :> "#2E7D32")
                                       @@ ("fill-opacity" :> "0.5")))
                       @@ ("layout" :> [visibility |-> "none"])]
        table_columns == Get(collection, "table:columns", <<>>)
        filterable == Filterable(table_columns, <<>>)
    IN  IF table_columns # <<>> /\ filterable # <<>>
        THEN layer_config @@ [filterableProperties |-> filterable]
        ELSE layer_config

\* lines 163-190: the raster (COG via TiTiler) descriptor
RasterConfig(layer_key, final_display_name, asset_href, attribution, titiler_url, colormap, rescale) ==
    LET base_url == titiler_url \o S_tiles_path \o asset_href
                    \o S_colormap_param \o colormap
        tiles_url == IF Truthy(rescale) THEN base_url \o S_rescale_param \o rescale
                     ELSE base_url
    IN  [displayName |-> final_display_name,
         layerIds |-> <<LayerId(layer_key)>>,
         checkboxId |-> LayerId(layer_key),
         hasLegend |-> FALSE,
         isVector |-> FALSE,
         source |-> [type |-> "raster",
                     tiles |-> <<tiles_url>>,
                     tileSize |-> 256,
                     minzoom |-> 0,
                     maxzoom |-> 12,
                     attribution |-> attribution],
         layer |-> ("type" :> "raster")
                   @@ ("paint" :> ("raster-opacity" :> "0.7"))
                   @@ ("layout" :> [visibility |-> "none"])]

\* lines 83-196.  The outcome is the returned descriptor, a sys.exit(1) or an
\* exception that nothing catches.
generate_layer_config(collection, asset_id, layer_key, display_name, titiler_url, colormap, rescale) ==
    LET assets == Get(collection, "assets", <<>>)
    IN  IF ~DictHas(assets, asset_id)
        THEN [status |-> "exit", msg |-> "asset not found"]
        ELSE
        LET asset == DictGet(assets, asset_id)
            asset_href == Get(asset, "href", <<>>)
            layer_type == detect_layer_type(asset)
            final_display_name == FinalDisplayName(collection, asset, layer_key, display_name)
            attr == Attribution(collection)
        IN  IF attr.status # "ok" THEN attr
            ELSE IF layer_type = "pmtiles"
            THEN [status |-> "ok",
                  config |-> VectorConfig(collection, layer_key, final_display_name,
                                          asset_href, attr.value)]
            ELSE IF layer_type = "cog"
            THEN [status |-> "ok",
                  config |-> RasterConfig(layer_key, final_display_name, asset_href,
                                          attr.value, titiler_url, colormap, rescale)]
            ELSE [status |-> "exit", msg |-> "unknown layer type"]

-----------------------------------------------------------------------------
(* Inputs of generate_layer_config drawn by the build specification *)

NoField == <<>>     \* a dict contributes no field

\* asset["type"]: absent, "", "application/vnd.pmtiles", "application/PMTiles",
\* "image/tiff; application=geotiff", "image/tiff; profile=Cloud-Optimized",
\* "text/csv", "geotiff+pmtiles"
AssetTypes ==
    {NoField, "type" :> <<>>, "type" :> <<"a","p","p","l","i","c","a","t","i","o","n","/","v","n","d",".","p","m","t","i","l","e","s">>,
     "type" :> <<"a","p","p","l","i","c","a","t","i","o","n","/","P","M","T","i","l","e","s">>, "type" :> <<"i","m","a","g","e","/","t","i","f","f",";"," ","a","p","p","l","i","c","a","t","i","o","n","=","g","e","o","t","i","f","f">>,
     "type" :> <<"i","m","a","g","e","/","t","i","f","f",";"," ","p","r","o","f","i","l","e","=","C","l","o","u","d","-","O","p","t","i","m","i","z","e","d">>, "type" :> <<"t","e","x","t","/","c","s","v">>,
     "type" :> <<"g","e","o","t","i","f","f","+","p","m","t","i","l","e","s">>}

\* "https://d/a.pmtiles" and "https://d/b.tif"
H_vector == <<"h","t","t","p","s",":","/","/","d","/","a",".","p","m","t","i","l","e","s">>
H_raster == <<"h","t","t","p","s",":","/","/","d","/","b",".","t","i","f">>

\* asset["href"]: absent, "", H_vector, H_raster, "https://d/c.csv",
\* "d.pmtiles.tif", "e.tif.pmtiles", "f.PMTILES"
AssetHrefs ==
    {NoField, "href" :> <<>>, "href" :> H_vector, "href" :> H_raster,
     "href" :> <<"h","t","t","p","s",":","/","/","d","/","c",".","c","s","v">>, "href" :> <<"d",".","p","m","t","i","l","e","s",".","t","i","f">>,
     "href" :> <<"e",".","t","i","f",".","p","m","t","i","l","e","s">>, "href" :> <<"f",".","P","M","T","I","L","E","S">>}

\* asset["title"]: absent, "", "Vulnerable Carbon 2018"
AssetTitles == {NoField, "title" :> <<>>, "title" :> <<"V","u","l","n","e","r","a","b","l","e"," ","C","a","r","b","o","n"," ","2","0","1","8">>}

\* collection["title"]: absent, "", "Irrecoverable Carbon"
CollectionTitles == {NoField, "title" :> <<>>, "title" :> <<"I","r","r","e","c","o","v","e","r","a","b","l","e"," ","C","a","r","b","o","n">>}

\* links: about -> "https://example.org/about", about -> "https://other.org",
\* about without href, about with href "", self
L_about == [rel |-> <<"a","b","o","u","t">>, href |-> <<"h","t","t","p","s",":","/","/","e","x","a","m","p","l","e",".","o","r","g","/","a","b","o","u","t">>]
L_about2 == [rel |-> <<"a","b","o","u","t">>, href |-> <<"h","t","t","p","s",":","/","/","o","t","h","e","r",".","o","r","g">>]
L_about_nohref == [rel |-> <<"a","b","o","u","t">>]
L_about_empty == [rel |-> <<"a","b","o","u","t">>, href |-> <<>>]
L_self == [rel |-> <<"s","e","l","f">>, href |-> <<"h","t","t","p","s",":","/","/","d","/","c","o","l","l","e","c","t","i","o","n",".","j","s","o","n">>]

CollectionLinks ==
    {NoField, "links" :> <<>>, "links" :> <<L_self>>, "links" :> <<L_self, L_about>>,
     "links" :> <<L_about, L_about2>>, "links" :> <<L_about_nohref, L_about>>,
     "links" :> <<L_about_empty, L_about>>}

\* providers: "State Agency", "Other", one without name, one with name ""
P_agency == [name |-> <<"S","t","a","t","e"," ","A","g","e","n","c","y">>]
P_other == [name |-> <<"O","t","h","e","r">>]
P_unnamed == [url |-> <<"h","t","t","p","s",":","/","/","p",".","o","r","g">>]
P_empty == [name |-> <<>>]

CollectionProviders ==
    {NoField, "providers" :> <<>>, "providers" :> <<P_agency>>,
     "providers" :> <<P_agency, P_other>>, "providers" :> <<P_unnamed, P_agency>>,
     "providers" :> <<P_empty>>}

\* table:columns records: the five skipped names, "name", "acres", "h1" (no
\* type), and one without name
Columns ==
    {[name |-> S_geometry, type |-> <<"b","i","n","a","r","y">>],
     [name |-> S_h0, type |-> <<"i","n","t","6","4">>],
     [name |-> S_h8, type |-> <<"i","n","t","6","4">>],
     [name |-> S_h9, type |-> <<"i","n","t","6","4">>],
     [name |-> S_h10, type |-> <<"i","n","t","6","4">>, description |-> <<"H","3"," ","i","n","d","e","x">>],
     [name |-> <<"n","a","m","e">>, type |-> S_string, description |-> <<"U","n","i","t"," ","n","a","m","e">>],
     [name |-> <<"a","c","r","e","s">>, type |-> <<"f","l","o","a","t","6","4">>],
     [name |-> <<"h","1">>],
     [type |-> <<"u","i","n","t","8">>]}

TableColumns ==
    {NoField} \cup {"table:columns" :> cols : cols \in SeqsUpTo(Columns, MaxCols)}

A_id == <<"c","p","a","d","-","u","n","i","t","s","-","p","m","t","i","l","e","s">>
LayerKeys == {<<"c","p","a","d">>, <<"k">>}
DisplayNames == {None, <<>>, <<"C","u","s","t","o","m"," ","N","a","m","e">>}

\* a collection holding one asset under A_id
Collection(asset, title, links, providers, columns) ==
    [id |-> <<"c","p","a","d","-","2","0","2","5","b">>, assets |-> <<[key |-> A_id, value |-> asset]>>]
    @@ title @@ links @@ providers @@ columns

BuildArgs(collection, asset_id, layer_key, display_name, colormap, rescale) ==
    [collection |-> collection, asset_id |-> asset_id, layer_key |-> layer_key,
     display_name |-> display_name, titiler_url |-> S_titiler,
     colormap |-> colormap, rescale |-> rescale]

A_vector == ("type" :> <<"a","p","p","l","i","c","a","t","i","o","n","/","v","n","d",".","p","m","t","i","l","e","s">>) @@ ("href" :> H_vector)
A_raster == ("type" :> <<"i","m","a","g","e","/","t","i","f","f",";"," ","a","p","p","l","i","c","a","t","i","o","n","=","g","e","o","t","i","f","f">>) @@ ("href" :> H_raster)
A_other == ("type" :> <<"t","e","x","t","/","c","s","v">>) @@ ("href" :> <<"h","t","t","p","s",":","/","/","d","/","c",".","c","s","v">>)

T_default == "title" :> <<"I","r","r","e","c","o","v","e","r","a","b","l","e"," ","C","a","r","b","o","n">>
L_default == "links" :> <<L_self, L_about>>
P_default == "providers" :> <<P_agency>>
C_default == "table:columns" :> <<[name |-> <<"n","a","m","e">>, type |-> S_string]>>

\* every asset, present or not under the requested id
AssetInputs ==
    {BuildArgs(Collection(ty @@ hr @@ ti, T_default, L_default, P_default, C_default),
               aid, <<"c","p","a","d">>, None, S_reds, None) :
        ty \in AssetTypes, hr \in AssetHrefs, ti \in {NoField}, aid \in {A_id, <<"o","t","h","e","r">>}}

\* every combination of the four sources of the display name
NameInputs ==
    {BuildArgs(Collection(a @@ ti, ct, L_default, P_default, NoField),
               A_id, k, dn, S_reds, None) :
        a \in {A_vector, A_raster}, ti \in AssetTitles, ct \in CollectionTitles,
        k \in LayerKeys, dn \in DisplayNames}

\* every combination of links and providers
AttributionInputs ==
    {BuildArgs(Collection(a, T_default, ls, ps, C_default),
               A_id, <<"c","p","a","d">>, None, S_reds, None) :
        a \in {A_vector, A_raster, A_other}, ls \in CollectionLinks,
        ps \in CollectionProviders}

\* every table:columns list
ColumnInputs ==
    {BuildArgs(Collection(a, T_default, L_default, P_default, cols),
               A_id, <<"c","p","a","d">>, None, S_reds, None) :
        a \in {A_vector, A_raster}, cols \in TableColumns}

\* the raster options
RasterInputs ==
    {BuildArgs(Collection(A_raster, T_default, L_default, P_default, NoField),
               A_id, <<"c","p","a","d">>, None, cm, rs) :
        cm \in {S_reds, <<"v","i","r","i","d","i","s">>}, rs \in {None, <<>>, <<"0",",","1","0","0">>}}

BuildInputs ==
    AssetInputs \cup NameInputs \cup AttributionInputs \cup ColumnInputs \cup RasterInputs

-----------------------------------------------------------------------------
(* The build specification: one call of generate_layer_config *)

NotRun == [status |-> "not run"]

Idle ==
    /\ pc = "idle"
    /\ argv = <<>>
    /\ catalog_links = <<>>
    /\ catalog_url = None
    /\ titiler = None
    /\ layer_specs = <<>>
    /\ si = 0
    /\ li = 0
    /\ collection_url = None
    /\ fetched = <<>>
    /\ nfetch = 0
    /\ layers = <<>>
    /\ outfile = <<>>
    /\ exit_msg = "none"

InitBuild ==
    /\ Idle
    /\ b_in \in BuildInputs
    /\ b_out = NotRun

\* detect_layer_type(assets[asset_id]) alone
Classify ==
    /\ pc = "idle"
    /\ b_out = NotRun
    /\ DictHas(b_in.collection.assets, b_in.asset_id)
    /\ b_out' = [status |-> "classified",
                 layer_type |-> detect_layer_type(DictGet(b_in.collection.assets,
                                                          b_in.asset_id))]
    /\ UNCHANGED <<main_vars, b_in>>

\* generate_layer_config(collection, asset_id, layer_key, display_name, ...)
Generate ==
    /\ pc = "idle"
    /\ b_out = NotRun
    /\ b_out' = generate_layer_config(b_in.collection, b_in.asset_id, b_in.layer_key,
                                      b_in.display_name, b_in.titiler_url,
                                      b_in.colormap, b_in.rescale)
    /\ UNCHANGED <<main_vars, b_in>>

NextBuild == Classify \/ Generate

SpecBuild == InitBuild /\ [][NextBuild]_vars

-----------------------------------------------------------------------------
(* Properties of one generate_layer_config call (specification SpecBuild) *)

\* the asset the call is about, when the collection holds it
B_HasAsset == DictHas(b_in.collection.assets, b_in.asset_id)
B_Asset == DictGet(b_in.collection.assets, b_in.asset_id)
B_Href == IF "href" \in DOMAIN B_Asset THEN B_Asset.href ELSE <<>>
B_Type == IF "type" \in DOMAIN B_Asset THEN B_Asset.type ELSE <<>>
B_Generated == b_out.status \in {"ok", "exit", "raise"}
B_Emitted == b_out.status = "ok"

\* C2 (as claimed): the displayName of an emitted descriptor is the first
\* non-empty value among the override, the asset title, the collection title and
\* the layer key, and so is not empty.
C2_FirstNonEmpty ==
    LET dn == b_in.display_name
        at == IF "title" \in DOMAIN B_Asset THEN B_Asset.title ELSE <<>>
        ct == IF "title" \in DOMAIN b_in.collection THEN b_in.collection.title ELSE <<>>
    IN  IF dn # None /\ dn # <<>> THEN dn
        ELSE IF at # <<>> THEN at
        ELSE IF ct # <<>> THEN ct
        ELSE b_in.layer_key

C2_DisplayNameFirstNonEmpty ==
    B_Emitted =>
        /\ b_out.config.displayName = C2_FirstNonEmpty
        /\ b_out.config.displayName # <<>>

\* C3 (as claimed): with a recognized asset the build never fails because of the
\* attribution; the attribution is empty when the first about link or the first
\* provider's name is missing or empty, and the anchor markup otherwise.
C3_AboutLinks ==
    IF "links" \in DOMAIN b_in.collection
    THEN SelectSeq(b_in.collection.links,
                   LAMBDA l : "rel" \in DOMAIN l /\ l.rel = <<"a","b","o","u","t">>)
    ELSE <<>>

C3_About ==
    IF C3_AboutLinks # <<>> /\ "href" \in DOMAIN C3_AboutLinks[1]
    THEN C3_AboutLinks[1].href ELSE <<>>

C3_Provider ==
    IF /\ "providers" \in DOMAIN b_in.collection
       /\ b_in.collection.providers # <<>>
       /\ "name" \in DOMAIN b_in.collection.providers[1]
    THEN b_in.collection.providers[1].name ELSE <<>>

C3_Expected ==
    IF C3_About = <<>> \/ C3_Provider = <<>> THEN <<>>
    ELSE <<"<","a"," ","h","r","e","f","=","\"">> \o C3_About
         \o <<"\""," ","t","a","r","g","e","t","=","\"","_","b","l","a","n","k","\"",">">>
         \o C3_Provider \o <<"<","/","a",">">>

C3_AttributionNeverFatal ==
    (B_Generated /\ B_HasAsset /\ detect_layer_type(B_Asset) # "unknown") =>
        /\ B_Emitted
        /\ b_out.config.source.attribution = C3_Expected

\* C4: detect_layer_type answers pmtiles exactly when the vector rule matches, cog
\* exactly when the vector rule does not match and the raster rule does, and
\* unknown exactly when neither matches; it answers one of the three.
C4_VectorRule ==
    \/ Contains(Lower(B_Type), <<"p","m","t","i","l","e","s">>)
    \/ EndsWith(B_Href, <<".","p","m","t","i","l","e","s">>)

C4_RasterRule ==
    \/ Contains(Lower(B_Type), <<"g","e","o","t","i","f","f">>)
    \/ Contains(Lower(B_Type), <<"c","l","o","u","d","-","o","p","t","i","m","i","z","e","d">>)
    \/ EndsWith(B_Href, <<".","t","i","f">>)

C4_ClassificationOrder ==
    b_out.status = "classified" =>
        /\ b_out.layer_type \in {"pmtiles", "cog", "unknown"}
        /\ (b_out.layer_type = "pmtiles") <=> C4_VectorRule
        /\ (b_out.layer_type = "cog") <=> (~C4_VectorRule /\ C4_RasterRule)
        /\ (b_out.layer_type = "unknown") <=> (~C4_VectorRule /\ ~C4_RasterRule)

\* an asset matching both rules was classified, and as vector
C4_Witness ==
    /\ b_out.status = "classified"
    /\ C4_VectorRule /\ C4_RasterRule
    /\ b_out.layer_type = "pmtiles"

\* C6: the filterableProperties of an emitted vector descriptor hold none of the
\* five excluded names and every other column name of the list; the field is
\* absent when every column is skipped (or there is none), and on every raster
\* descriptor.
C6_Excluded == {<<"g","e","o","m","e","t","r","y">>, <<"h","1","0">>, <<"h","9">>, <<"h","8">>, <<"h","0">>}

C6_Columns ==
    IF "table:columns" \in DOMAIN b_in.collection
    THEN b_in.collection["table:columns"] ELSE <<>>

C6_ColumnName(col) == IF "name" \in DOMAIN col THEN col.name ELSE <<>>

C6_Retained ==
    {i \in 1..Len(C6_Columns) : C6_ColumnName(C6_Columns[i]) \notin C6_Excluded}

C6_FilterableSchema ==
    B_Emitted =>
        IF b_out.config.isVector /\ C6_Retained # {}
        THEN /\ "filterableProperties" \in DOMAIN b_out.config
             /\ LET fp == b_out.config.filterableProperties
                    keys == {fp[i].key : i \in 1..Len(fp)}
                IN  /\ keys \cap C6_Excluded = {}
                    /\ \A i \in C6_Retained : C6_ColumnName(C6_Columns[i]) \in keys
                    /\ \A k \in keys :
                          \E i \in C6_Retained : C6_ColumnName(C6_Columns[i]) = k
        ELSE "filterableProperties" \notin DOMAIN b_out.config

\* a vector descriptor was emitted from a list holding an excluded and a retained column
C6_Witness ==
    /\ B_Emitted
    /\ b_out.config.isVector
    /\ \E i \in 1..Len(C6_Columns) : C6_ColumnName(C6_Columns[i]) \in C6_Excluded
    /\ C6_Retained # {}
    /\ "filterableProperties" \in DOMAIN b_out.config

\* C8: a descriptor emitted for an asset classified vector has source.type "vector",
\* source.url "pmtiles://" + href, layer.source-layer = layer key, layerIds =
\* [key + "-layer"], checkboxId = key + "-layer" and hasLegend false; a raster
\* descriptor has the same layerIds, checkboxId and hasLegend.
C8_DerivedIds ==
    /\ b_out.config.layerIds = <<b_in.layer_key \o <<"-","l","a","y","e","r">>>>
    /\ b_out.config.checkboxId = b_in.layer_key \o <<"-","l","a","y","e","r">>
    /\ b_out.config.hasLegend = FALSE

C8_VectorShape ==
    B_Emitted =>
        /\ C8_DerivedIds
        /\ detect_layer_type(B_Asset) = "pmtiles" =>
              /\ b_out.config.source.type = "vector"
              /\ b_out.config.source.url = <<"p","m","t","i","l","e","s",":","/","/">> \o B_Href
              /\ b_out.config.layer["source-layer"] = b_in.layer_key
        /\ detect_layer_type(B_Asset) = "cog" => b_out.config.source.type = "raster"

\* the scenario of the specification: key "cpad", an href ending in .pmtiles
C8_Witness ==
    /\ B_Emitted
    /\ b_in.layer_key = <<"c","p","a","d">>
    /\ EndsWith(B_Href, <<".","p","m","t","i","l","e","s">>)
    /\ b_out.config.source.url = <<"p","m","t","i","l","e","s",":","/","/","h","t","t","p","s",":","/","/","d","/","a",".","p","m","t","i","l","e","s">>
    /\ b_out.config.layerIds = <<<<"c","p","a","d","-","l","a","y","e","r">>>>

\* C10 (as claimed): no descriptor is emitted for an asset whose href is missing or
\* empty, whatever its media type: the call ends with the classification error.
C10_HrefRequired ==
    (B_Generated /\ B_HasAsset /\ B_Href = <<>>) =>
        /\ ~B_Emitted
        /\ b_out.msg = "unknown layer type"

-----------------------------------------------------------------------------
(* The documents the run can fetch *)

\* "http://s/catalog.json"; the collections c1, c2, c3 and the assets a1, a2
CatalogUrl == <<"h","t","t","p",":","/","/","s","/","c","a","t","a","l","o","g",".","j","s","o","n">>

C_units == <<"c","1">>
C_carbon == <<"c","2">>
C_nested == <<"c","3">>
A_1 == <<"a","1">>
A_2 == <<"a","2">>

\* served at http://s/a.json; links to a nested collection
Doc_a ==
    [id |-> C_units, title |-> <<"U","n","i","t","s">>,
     links |-> <<[rel |-> <<"c","h","i","l","d">>, href |-> <<"g",".","j","s","o","n">>], L_about>>,
     providers |-> <<P_agency>>,
     assets |-> <<[key |-> A_1, value |-> A_vector], [key |-> A_2, value |-> A_other]>>]
    @@ ("table:columns" :> <<[name |-> S_geometry, type |-> <<"b","i","n","a","r","y">>],
                              [name |-> <<"a","c","r","e","s">>, type |-> <<"f","l","o","a","t","6","4">>]>>)

\* served at http://h/b.json
Doc_b ==
    [id |-> C_carbon, title |-> <<"C","a","r","b","o","n">>,
     assets |-> <<[key |-> A_1, value |-> A_raster @@ ("title" :> <<"C","a","r","b","o","n"," ","2","0","1","8">>)]>>]

\* served at http://s/sub/c.json; carries the id of Doc_a and an empty providers list
Doc_c ==
    [id |-> C_units, title |-> <<"U","n","i","t","s"," ","(","c","o","p","y",")">>, providers |-> <<>>,
     assets |-> <<[key |-> A_1, value |-> A_vector]>>]

\* served at http://s/g.json; linked from Doc_a only
Doc_g ==
    [id |-> C_nested, assets |-> <<[key |-> A_1, value |-> A_vector]>>]

\* "http://s/a.json", "http://h/b.json", "http://s/sub/c.json", "http://s/g.json"
U_a == <<"h","t","t","p",":","/","/","s","/","a",".","j","s","o","n">>
U_b == <<"h","t","t","p",":","/","/","h","/","b",".","j","s","o","n">>
U_c == <<"h","t","t","p",":","/","/","s","/","s","u","b","/","c",".","j","s","o","n">>
U_g == <<"h","t","t","p",":","/","/","s","/","g",".","j","s","o","n">>

Served(url) == url \in {CatalogUrl, U_a, U_b, U_c, U_g}

Document(url) ==
    CASE url = CatalogUrl -> [id |-> <<"r","o","o","t">>, links |-> catalog_links]
      [] url = U_a -> Doc_a
      [] url = U_b -> Doc_b
      [] url = U_c -> Doc_c
      [] url = U_g -> Doc_g

\* child -> "a.json", child -> "http://h/b.json", child -> "sub/c.json",
\* item -> "a.json"
\* the links a catalog may hold
CatalogLinks ==
    {[rel |-> <<"c","h","i","l","d">>, href |-> <<"a",".","j","s","o","n">>],
     [rel |-> <<"c","h","i","l","d">>, href |-> U_b],
     [rel |-> <<"c","h","i","l","d">>, href |-> <<"s","u","b","/","c",".","j","s","o","n">>],
     [rel |-> <<"i","t","e","m">>, href |-> <<"a",".","j","s","o","n">>]}

-----------------------------------------------------------------------------
(* The inputs of a run *)

\* entries of the "layers" array of an input file
JsonSpecs ==
    {[collection_id |-> C_units, asset_id |-> A_1, layer_key |-> <<"k","1">>],
     [collection_id |-> C_carbon, asset_id |-> A_1, layer_key |-> <<"k","2">>,
      display_name |-> <<"C","a","r","b","o","n">>, options |-> [rescale |-> <<"0",",","1","0","0">>]],
     [collection_id |-> C_carbon, asset_id |-> A_1, layer_key |-> <<"k","1">>],
     [collection_id |-> C_units, asset_id |-> A_2, layer_key |-> <<"k","2">>],
     [collection_id |-> C_units, asset_id |-> <<"a","9">>, layer_key |-> <<"k","2">>],
     [collection_id |-> C_nested, asset_id |-> A_1, layer_key |-> <<"k","1">>]}

\* "c1:a1:k1", "c2:a1:k2:Carbon: 2018" (a display name holding a colon), "c1:a1"
\* values of --layer
CliLayers == {<<"c","1",":","a","1",":","k","1">>, <<"c","2",":","a","1",":","k","2",":","C","a","r","b","o","n",":"," ","2","0","1","8">>, <<"c","1",":","a","1">>}

InputFiles ==
    {c @@ l : c \in {NoField, "catalog" :> <<>>, "catalog" :> CatalogUrl},
              l \in {NoField} \cup {"layers" :> ls : ls \in SeqsUpTo(JsonSpecs, MaxSpecs)}}

\* args: --input with the content of the file when it exists, or --catalog and
\* --layer, each given or not (argparse leaves None, here no field)
Args ==
    {[input |-> TRUE, exists |-> FALSE]}
    \cup {[input |-> TRUE, exists |-> TRUE, file |-> f] : f \in InputFiles}
    \cup {[input |-> FALSE] @@ c @@ l :
            c \in {NoField, "catalog" :> CatalogUrl},
            l \in {NoField}
                  \cup {"layer" :> ls : ls \in SeqsUpTo(CliLayers, MaxSpecs) \ {<<>>}}}

-----------------------------------------------------------------------------
(* main: reading the input, lines 242-288 *)

\* str.split(":", maxsplit)
RECURSIVE Split(_, _)
Split(s, maxsplit) ==
    IF maxsplit = 0 \/ ~\E i \in 1..Len(s) : s[i] = ":"
    THEN <<s>>
    ELSE LET i == CHOOSE i \in 1..Len(s) : s[i] = ":" /\ \A j \in 1..(i - 1) : s[j] # ":"
         IN  <<SubSeq(s, 1, i - 1)>> \o Split(SubSeq(s, i + 1, Len(s)), maxsplit - 1)

\* lines 270-283: the loop over args.layer, ended by the first invalid specification
RECURSIVE ParseLayers(_, _)
ParseLayers(layer, layer_specs_so_far) ==
    IF layer = <<>> THEN [status |-> "ok", layer_specs |-> layer_specs_so_far]
    ELSE LET parts == Split(Head(layer), 3)
         IN  IF Len(parts) < 3
             THEN [status |-> "exit", msg |-> "invalid layer specification"]
             ELSE ParseLayers(Tail(layer),
                              Append(layer_specs_so_far,
                                     [collection_id |-> parts[1],
                                      asset_id |-> parts[2],
                                      layer_key |-> parts[3],
                                      display_name |-> IF Len(parts) > 3 THEN parts[4]
                                                       ELSE None,
                                      options |-> <<>>]))

\* mutant: the input file's layers array is not checked
parse_input_layers_unchecked(args) ==
    IF args.input
    THEN IF ~args.exists
         THEN [status |-> "exit", msg |-> "input file not found"]
         ELSE IF ~Truthy(Get(args.file, "catalog", None))
         THEN [status |-> "exit", msg |-> "catalog field required"]
         ELSE [status |-> "ok",
               catalog_url |-> args.file.catalog,
               titiler_url |-> Get(args.file, "titiler_url", S_titiler),
               layer_specs |-> Get(args.file, "layers", <<>>)]
    ELSE IF "catalog" \in DOMAIN args /\ "layer" \in DOMAIN args
         THEN LET parsed == ParseLayers(args.layer, <<>>)
              IN  IF parsed.status = "ok"
                  THEN [status |-> "ok",
                        catalog_url |-> args.catalog,
                        titiler_url |-> S_titiler,
                        layer_specs |-> parsed.layer_specs]
                  ELSE parsed
         ELSE [status |-> "exit", msg |-> "must specify input or catalog and layer"]

\* lines 242-288: the input method and its validation
parse_input(args) ==
    IF args.input
    THEN IF ~args.exists
         THEN [status |-> "exit", msg |-> "input file not found"]
         ELSE IF ~Truthy(Get(args.file, "catalog", None))
         THEN [status |-> "exit", msg |-> "catalog field required"]
         ELSE IF Get(args.file, "layers", <<>>) = <<>>
         THEN [status |-> "exit", msg |-> "layers array is empty"]
         ELSE [status |-> "ok",
               catalog_url |-> args.file.catalog,
               titiler_url |-> Get(args.file, "titiler_url", S_titiler),
               layer_specs |-> args.file.layers]
    ELSE IF "catalog" \in DOMAIN args /\ "layer" \in DOMAIN args
         THEN LET parsed == ParseLayers(args.layer, <<>>)
              IN  IF parsed.status = "ok"
                  THEN [status |-> "ok",
                        catalog_url |-> args.catalog,
                        titiler_url |-> S_titiler,
                        layer_specs |-> parsed.layer_specs]
                  ELSE parsed
         ELSE [status |-> "exit", msg |-> "must specify input or catalog and layer"]

-----------------------------------------------------------------------------
(* fetch_json and the location of a child link *)

\* lines 30-37: the parsed document, or sys.exit(1) on any failure; ok tells
\* whether urlopen, decode and json.loads all succeed this time
fetch_json(url, ok) ==
    IF ok THEN [status |-> "ok", doc |-> Document(url)]
    ELSE [status |-> "exit", msg |-> "error fetching"]

\* urljoin(base, ref) for a reference that is empty or a relative path without
\* dot segments: the base up to its last slash, followed by the reference
urljoin(base, ref) ==
    IF ref = <<>> THEN base
    ELSE LET i == CHOOSE i \in 1..Len(base) :
                      base[i] = "/" /\ \A j \in (i + 1)..Len(base) : base[j] # "/"
         IN  SubSeq(base, 1, i) \o ref

\* lines 47-49
LinkUrl(cat_url, link) ==
    LET href == Get(link, "href", <<>>)
    IN  IF StartsWith(href, S_http) THEN href ELSE urljoin(cat_url, href)

\* mutant: every link is taken for a child link
IsChild_any_relation(link) == TRUE

\* line 45
IsChild(link) == Get(link, "rel", None) = <<"c","h","i","l","d">>

-----------------------------------------------------------------------------
(* The run of main *)

Init ==
    /\ pc = "start"
    /\ argv \in Args
    /\ catalog_links \in SeqsUpTo(CatalogLinks, MaxLinks)
    /\ catalog_url = None
    /\ titiler = None
    /\ layer_specs = <<>>
    /\ si = 0
    /\ li = 0
    /\ collection_url = None
    /\ fetched = <<>>
    /\ nfetch = 0
    /\ layers = <<>>
    /\ outfile = <<>>
    /\ exit_msg = "none"
    /\ b_in = <<>>
    /\ b_out = NotRun

\* lines 242-295: the input is read and validated, layers_config is created
ParseInput ==
    /\ pc = "start"
    /\ LET r == parse_input(argv)
       IN  IF r.status = "ok"
           THEN /\ catalog_url' = r.catalog_url
                /\ titiler' = r.titiler_url
                /\ layer_specs' = r.layer_specs
                /\ si' = 1
                /\ pc' = "loop"
                /\ UNCHANGED exit_msg
           ELSE /\ pc' = "failed"
                /\ exit_msg' = r.msg
                /\ UNCHANGED <<catalog_url, titiler, layer_specs, si>>
    /\ UNCHANGED <<argv, catalog_links, li, collection_url, fetched, nfetch, layers,
                   outfile, build_vars>>

\* lines 297-307, 42: the next spec is taken and find_collection_url fetches the catalog
FetchCatalog ==
    /\ pc = "loop"
    /\ si <= Len(layer_specs)
    /\ \E ok \in BOOLEAN :
          LET r == fetch_json(catalog_url, ok)
          IN  /\ ok => Served(catalog_url)
              /\ IF r.status = "ok"
                 THEN /\ pc' = "scan"
                      /\ li' = 1
                      /\ UNCHANGED exit_msg
                 ELSE /\ pc' = "failed"
                      /\ exit_msg' = r.msg
                      /\ UNCHANGED li
    /\ fetched' = <<catalog_url>>
    /\ nfetch' = nfetch + 1
    /\ collection_url' = None
    /\ UNCHANGED <<argv, catalog_links, catalog_url, titiler, layer_specs, si,
                   layers, outfile, build_vars>>

\* lines 44-45: a link whose relation is not "child" is passed over
SkipLink ==
    /\ pc = "scan"
    /\ li <= Len(Document(catalog_url).links)
    /\ ~IsChild(Document(catalog_url).links[li])
    /\ li' = li + 1
    /\ UNCHANGED <<pc, argv, catalog_links, catalog_url, titiler, layer_specs, si,
                   collection_url, fetched, nfetch, layers, outfile, exit_msg,
                   build_vars>>

\* lines 45-54: a child link's document is fetched and its id compared
FetchChild ==
    /\ pc = "scan"
    /\ li <= Len(Document(catalog_url).links)
    /\ IsChild(Document(catalog_url).links[li])
    /\ LET url == LinkUrl(catalog_url, Document(catalog_url).links[li])
       IN  /\ fetched' = Append(fetched, url)
           /\ nfetch' = nfetch + 1
           /\ \E ok \in BOOLEAN :
                 LET r == fetch_json(url, ok)
                 IN  /\ ok => Served(url)
                     /\ IF r.status # "ok"
                        THEN /\ pc' = "failed"
                             /\ exit_msg' = r.msg
                             /\ UNCHANGED <<li, collection_url>>
                        ELSE IF Get(r.doc, "id", None) = layer_specs[si].collection_id
                        THEN /\ pc' = "found"
                             /\ collection_url' = url
                             /\ UNCHANGED <<li, exit_msg>>
                        ELSE /\ li' = li + 1
                             /\ UNCHANGED <<pc, collection_url, exit_msg>>
    /\ UNCHANGED <<argv, catalog_links, catalog_url, titiler, layer_specs, si,
                   layers, outfile, build_vars>>

\* mutant: the missing collection is reported and the loop goes on to the next spec
NotFound_continue ==
    /\ pc = "scan"
    /\ li > Len(Document(catalog_url).links)
    /\ pc' = "loop"
    /\ si' = si + 1
    /\ UNCHANGED <<argv, catalog_links, catalog_url, titiler, layer_specs, li,
                   collection_url, fetched, nfetch, layers, outfile, exit_msg,
                   build_vars>>

\* lines 56, 308-310: find_collection_url returns None and main exits
NotFound ==
    /\ pc = "scan"
    /\ li > Len(Document(catalog_url).links)
    /\ pc' = "failed"
    /\ exit_msg' = "collection not found"
    /\ UNCHANGED <<argv, catalog_links, catalog_url, titiler, layer_specs, si, li,
                   collection_url, fetched, nfetch, layers, outfile, build_vars>>

\* lines 313-331: the collection is fetched again, its descriptor generated and
\* stored under the layer key
GenerateLayer ==
    /\ pc = "found"
    /\ nfetch' = nfetch + 1
    /\ \E ok \in BOOLEAN :
          LET r == fetch_json(collection_url, ok)
              spec == layer_specs[si]
              options == Get(spec, "options", <<>>)
          IN  /\ ok => Served(collection_url)
              /\ IF r.status # "ok"
                 THEN /\ pc' = "failed"
                      /\ exit_msg' = r.msg
                      /\ UNCHANGED <<si, layers>>
                 ELSE LET g == generate_layer_config(
                                   r.doc, spec.asset_id, spec.layer_key,
                                   Get(spec, "display_name", None), titiler,
                                   Get(options, "colormap", S_reds),
                                   Get(options, "rescale", None))
                      IN  IF g.status = "ok"
                          THEN /\ layers' = DictSet(layers, spec.layer_key, g.config)
                               /\ si' = si + 1
                               /\ pc' = "loop"
                               /\ UNCHANGED exit_msg
                          ELSE /\ pc' = "failed"
                               /\ exit_msg' = g.msg
                               /\ UNCHANGED <<si, layers>>
    /\ UNCHANGED <<argv, catalog_links, catalog_url, titiler, layer_specs, li,
                   collection_url, fetched, outfile, build_vars>>

\* lines 291-295, 334-340: after the last spec the document is written
WriteOutput ==
    /\ pc = "loop"
    /\ si > Len(layer_specs)
    /\ outfile' = Append(outfile,
                         [version |-> "1.0",
                          description |-> "Map layer configuration for California Protected Lands application",
                          layers |-> layers])
    /\ pc' = "done"
    /\ UNCHANGED <<argv, catalog_links, catalog_url, titiler, layer_specs, si, li,
                   collection_url, fetched, nfetch, layers, exit_msg, build_vars>>

Next ==
    \/ ParseInput
    \/ FetchCatalog
    \/ SkipLink
    \/ FetchChild
    \/ NotFound
    \/ GenerateLayer
    \/ WriteOutput

Spec == Init /\ [][Next]_vars

-----------------------------------------------------------------------------
(* Properties of a run (specification Spec) *)

\* the locations of the catalog's child links, in document order
RECURSIVE W_ChildUrls(_)
W_ChildUrls(links) ==
    IF links = <<>> THEN <<>>
    ELSE LET l == Head(links)
             url == IF SubSeq(l.href, 1, 4) = <<"h","t","t","p">> THEN l.href
                    ELSE <<"h","t","t","p",":","/","/","s","/">> \o l.href
         IN  IF l.rel = <<"c","h","i","l","d">> THEN <<url>> \o W_ChildUrls(Tail(links))
             ELSE W_ChildUrls(Tail(links))

\* the index in W_ChildUrls of the first document with the id, 0 when there is none
W_FirstMatch(cid) ==
    LET urls == W_ChildUrls(catalog_links)
        hits == {j \in 1..Len(urls) : Document(urls[j]).id = cid}
    IN  IF hits = {} THEN 0 ELSE CHOOSE j \in hits : \A h \in hits : j <= h

W_Resolved(cid) == Document(W_ChildUrls(catalog_links)[W_FirstMatch(cid)])

W_IsPrefix(s, t) == Len(s) <= Len(t) /\ SubSeq(t, 1, Len(s)) = s

\* the request can be served: its collection is a child of the catalog, holds
\* the asset, and the asset is recognized
W_Servable(spec) ==
    /\ W_FirstMatch(spec.collection_id) > 0
    /\ LET assets == W_Resolved(spec.collection_id).assets
       IN  /\ DictHas(assets, spec.asset_id)
           /\ detect_layer_type(DictGet(assets, spec.asset_id)) # "unknown"

\* C1: the output file is never written by a run that ended with an error; when
\* it is written, the run went through every request, each request could be
\* served and has its descriptor in the document, and it is written once.
C1_NoPartialOutput ==
    /\ (pc = "failed" \/ exit_msg # "none") => outfile = <<>>
    /\ outfile # <<>> =>
          /\ pc = "done" /\ exit_msg = "none" /\ Len(outfile) = 1
          /\ si = Len(layer_specs) + 1
          /\ \A i \in 1..Len(layer_specs) :
                /\ W_Servable(layer_specs[i])
                /\ DictHas(outfile[1].layers, layer_specs[i].layer_key)

\* the second request failed after the first produced its descriptor
C1_Witness ==
    /\ pc = "failed"
    /\ si = 2
    /\ layers # <<>>
    /\ exit_msg \in {"error fetching", "collection not found", "asset not found",
                     "unknown layer type"}
    /\ outfile = <<>>

\* C5: a run whose input lacks catalog, or lacks layers or has it empty, or (on
\* the command line) has a layer specification of fewer than three fields, ends
\* with an input error before any fetch; a fetch happens only once the whole
\* input is validated and turned into the request list.
C5_Fields(s) == Cardinality({i \in 1..Len(s) : s[i] = ":"}) + 1

C5_Malformed ==
    IF argv.input
    THEN /\ argv.exists
         /\ \/ "catalog" \notin DOMAIN argv.file
            \/ "layers" \notin DOMAIN argv.file
            \/ argv.file.layers = <<>>
    ELSE /\ "layer" \in DOMAIN argv
         /\ \E i \in 1..Len(argv.layer) : C5_Fields(argv.layer[i]) < 3

C5_Requests == IF argv.input THEN argv.file.layers ELSE argv.layer

C5_ValidatedBeforeFetch ==
    /\ (C5_Malformed /\ pc # "start") =>
          /\ pc = "failed"
          /\ exit_msg \in {"catalog field required", "layers array is empty",
                           "invalid layer specification",
                           "must specify input or catalog and layer"}
          /\ nfetch = 0
    /\ nfetch > 0 =>
          /\ ~C5_Malformed
          /\ pc # "start"
          /\ Len(layer_specs) = Len(C5_Requests)

\* a command line whose first specification is valid and whose second is not
C5_Witness ==
    /\ pc = "failed"
    /\ ~argv.input
    /\ "catalog" \in DOMAIN argv /\ "layer" \in DOMAIN argv
    /\ Len(argv.layer) = 2
    /\ C5_Fields(argv.layer[1]) >= 3
    /\ C5_Fields(argv.layer[2]) < 3
    /\ nfetch = 0

\* the descriptor of the i-th request, built from its collection and asset
C7_Descriptor(i) ==
    LET spec == layer_specs[i]
        options == IF "options" \in DOMAIN spec THEN spec.options ELSE <<>>
    IN  generate_layer_config(
            W_Resolved(spec.collection_id), spec.asset_id, spec.layer_key,
            IF "display_name" \in DOMAIN spec THEN spec.display_name ELSE None,
            S_titiler,
            IF "colormap" \in DOMAIN options THEN options.colormap ELSE S_reds,
            IF "rescale" \in DOMAIN options THEN options.rescale ELSE None).config

\* C7 (as claimed): after a successful run the layers mapping holds one
\* descriptor per request, the i-th entry under the i-th request's key and built
\* from the i-th request.
C7_OnePerRequest ==
    pc = "done" =>
        LET out == outfile[1].layers
        IN  /\ Len(out) = Len(layer_specs)
            /\ \A i \in 1..Len(layer_specs) :
                  /\ out[i].key = layer_specs[i].layer_key
                  /\ out[i].value = C7_Descriptor(i)

\* the keys of the requests, each at its first occurrence
RECURSIVE C7_FirstOccurrences(_, _)
C7_FirstOccurrences(specs, seen) ==
    IF specs = <<>> THEN <<>>
    ELSE IF Head(specs).layer_key \in seen
         THEN C7_FirstOccurrences(Tail(specs), seen)
         ELSE <<Head(specs).layer_key>>
              \o C7_FirstOccurrences(Tail(specs), seen \cup {Head(specs).layer_key})

\* C7 (amended): after a successful run the layers mapping holds one descriptor
\* per distinct layer key, the keys in the order of their first occurrence in
\* the request list, each descriptor built from the last request with that key;
\* with pairwise distinct keys that is one descriptor per request, in order.
C7_OnePerKeyLastWins ==
    pc = "done" =>
        LET out == outfile[1].layers
            n == Len(layer_specs)
            Last(k) == CHOOSE i \in 1..n :
                          /\ layer_specs[i].layer_key = k
                          /\ \A j \in (i + 1)..n : layer_specs[j].layer_key # k
        IN  /\ DictKeys(out) = C7_FirstOccurrences(layer_specs, {})
            /\ \A e \in 1..Len(out) : out[e].value = C7_Descriptor(Last(out[e].key))
            /\ (\A i, j \in 1..n : i # j => layer_specs[i].layer_key # layer_specs[j].layer_key)
                  => /\ Len(out) = n
                     /\ \A i \in 1..n : /\ out[i].key = layer_specs[i].layer_key
                                        /\ out[i].value = C7_Descriptor(i)

\* a successful run of two requests for different collections under one key: the
\* document holds the second request's descriptor alone
C7_Witness ==
    /\ pc = "done"
    /\ Len(layer_specs) = 2
    /\ layer_specs[1].layer_key = layer_specs[2].layer_key
    /\ layer_specs[1].collection_id # layer_specs[2].collection_id
    /\ Len(outfile[1].layers) = 1
    /\ outfile[1].layers[1].value = C7_Descriptor(2)
    /\ outfile[1].layers[1].value # C7_Descriptor(1)

\* C9: the locations fetched by a find_collection_url call are the catalog, then
\* the child links' locations in document order, up to the first whose document
\* has the requested id; the call returns that location, and returns None only
\* when all child links were fetched and none has the id.
C9_Expected ==
    LET urls == W_ChildUrls(catalog_links)
        m == W_FirstMatch(layer_specs[si].collection_id)
    IN  <<<<"h","t","t","p",":","/","/","s","/","c","a","t","a","l","o","g",".","j","s","o","n">>>> \o SubSeq(urls, 1, IF m = 0 THEN Len(urls) ELSE m)

C9_FirstMatchResolution ==
    (pc \in {"scan", "found", "failed"} /\ fetched # <<>>) =>
        LET m == W_FirstMatch(layer_specs[si].collection_id)
        IN  /\ W_IsPrefix(fetched, C9_Expected)
            /\ pc = "found" =>
                  /\ m > 0
                  /\ fetched = C9_Expected
                  /\ collection_url = W_ChildUrls(catalog_links)[m]
            /\ (exit_msg = "collection not found"
                  \/ (pc = "scan" /\ li > Len(catalog_links))) =>
                  /\ m = 0
                  /\ fetched = C9_Expected

\* the first of two children carrying the requested id was returned
C9_Witness ==
    /\ pc = "found"
    /\ Len(W_ChildUrls(catalog_links)) = 2
    /\ \A j \in 1..2 :
          Document(W_ChildUrls(catalog_links)[j]).id = layer_specs[si].collection_id
    /\ Len(fetched) = 2
    /\ collection_url = <<"h","t","t","p",":","/","/","s","/","a",".","j","s","o","n">>

=============================================================================
